---- MODULE Spec2Model ----
(***************************************************************************)
(* Model of src/aqi_bot.py: the Telegram air-quality bot.                  *)
(*                                                                         *)
(* The state is what the running bot keeps between updates: the            *)
(* ConversationHandler's state per (chat, user) key, the per-user          *)
(* context.user_data dictionary, and the update being handled.  One action *)
(* stands for one handler; a handler that awaits fetch_air_quality is cut  *)
(* at that await into its first half and FetchReturn.  The Application is  *)
(* built without concurrent_updates, so updates are handled one at a time. *)
(* Sending replies is taken to succeed.  Emoji of the labels are left out. *)
(***************************************************************************)
EXTENDS Integers, Sequences, FiniteSets, TLC

VARIABLES conversations, user_data, turn, probe

vars == <<conversations, user_data, turn, probe>>

None == "None"

Range(s) == {s[i] : i \in 1..Len(s)}

(***************************************************************************)
(* Configuration and catalog                                               *)
(***************************************************************************)
COUNTRY_NAME == "Uzbekistan"

\* main() exits when the key is missing, so a running bot has it
IQAIR_API_KEY == "key"

Idle == "Idle"
CHOOSING_REGION == "CHOOSING_REGION"
CHOOSING_CITY == "CHOOSING_CITY"
END == "END"

States == {Idle, CHOOSING_REGION, CHOOSING_CITY}

\* the dictionary, in insertion order
REGIONS_DATA ==
  << [name |-> "Andijon", state_param |-> "Andijon", cities |-> <<"Andijon">>],
     [name |-> "Bukhara", state_param |-> "Bukhara", cities |-> <<"Bukhara", "Kagan">>],
     [name |-> "Fergana", state_param |-> "Fergana", cities |-> <<"Fergana", "Kirguli">>],
     [name |-> "Jizzax", state_param |-> "Jizzax", cities |-> <<"Jizzax">>],
     [name |-> "Karakalpakstan", state_param |-> "Karakalpakstan", cities |-> <<"Nukus">>],
     [name |-> "Namangan", state_param |-> "Namangan", cities |-> <<"Namangan">>],
     [name |-> "Navoiy", state_param |-> "Navoiy", cities |-> <<"Navoiy", "Zarafshan">>],
     [name |-> "Samarqand", state_param |-> "Samarqand", cities |-> <<"Samarqand">>],
     [name |-> "Sirdaryo", state_param |-> "Sirdaryo", cities |-> <<"Guliston">>],
     [name |-> "Toshkent", state_param |-> "Toshkent",
      cities |-> <<"Amirsoy", "Chorvoq", "G'azalkent", "Parkent", "Qibray",
                   "Salor", "Sidzhak", "Tuytepa", "Urtaowul">>],
     [name |-> "Toshkent Shahri", state_param |-> "Toshkent Shahri", cities |-> <<"Tashkent">>],
     [name |-> "Xorazm", state_param |-> "Xorazm", cities |-> <<"Pitnak", "Urganch">>],
     [name |-> "Qashqadaryo", state_param |-> "Qashqadaryo", cities |-> << >>],
     [name |-> "Surxondaryo", state_param |-> "Surxondaryo", cities |-> << >>] >>

\* REGIONS_DATA.keys()
RegionKeys == [i \in 1..Len(REGIONS_DATA) |-> REGIONS_DATA[i].name]

RegionNames == Range(RegionKeys)

\* REGIONS_DATA[name], for a name in the dictionary
Region(name) == CHOOSE e \in Range(REGIONS_DATA) : e.name = name

\* REGIONS_DATA.get(region_name, {}).get("cities", [])
CitiesOf(region_name) ==
  IF region_name \in RegionNames THEN Region(region_name).cities ELSE << >>

AllCities == UNION {Range(REGIONS_DATA[i].cities) : i \in 1..Len(REGIONS_DATA)}

\* the code points of the keys, which sorted() compares
CodePoints(name) ==
  CASE name = "Andijon" -> <<65, 110, 100, 105, 106, 111, 110>>
    [] name = "Bukhara" -> <<66, 117, 107, 104, 97, 114, 97>>
    [] name = "Fergana" -> <<70, 101, 114, 103, 97, 110, 97>>
    [] name = "Jizzax" -> <<74, 105, 122, 122, 97, 120>>
    [] name = "Karakalpakstan" -> <<75, 97, 114, 97, 107, 97, 108, 112, 97, 107, 115, 116, 97, 110>>
    [] name = "Namangan" -> <<78, 97, 109, 97, 110, 103, 97, 110>>
    [] name = "Navoiy" -> <<78, 97, 118, 111, 105, 121>>
    [] name = "Samarqand" -> <<83, 97, 109, 97, 114, 113, 97, 110, 100>>
    [] name = "Sirdaryo" -> <<83, 105, 114, 100, 97, 114, 121, 111>>
    [] name = "Toshkent" -> <<84, 111, 115, 104, 107, 101, 110, 116>>
    [] name = "Toshkent Shahri" -> <<84, 111, 115, 104, 107, 101, 110, 116, 32, 83, 104, 97, 104, 114, 105>>
    [] name = "Xorazm" -> <<88, 111, 114, 97, 122, 109>>
    [] name = "Qashqadaryo" -> <<81, 97, 115, 104, 113, 97, 100, 97, 114, 121, 111>>
    [] name = "Surxondaryo" -> <<83, 117, 114, 120, 111, 110, 100, 97, 114, 121, 111>>

\* Python's str <
RECURSIVE SeqLess(_, _)
SeqLess(a, b) ==
  IF b = << >> THEN FALSE
  ELSE IF a = << >> THEN TRUE
  ELSE IF Head(a) # Head(b) THEN Head(a) < Head(b)
  ELSE SeqLess(Tail(a), Tail(b))

StrLess(a, b) == SeqLess(CodePoints(a), CodePoints(b))

\* sorted(): the ascending arrangement of a sequence of distinct strings
RECURSIVE InsertSorted(_, _)
InsertSorted(x, s) ==
  IF s = << >> THEN <<x>>
  ELSE IF StrLess(x, Head(s)) THEN <<x>> \o s
  ELSE <<Head(s)>> \o InsertSorted(x, Tail(s))

RECURSIVE sorted(_)
sorted(s) ==
  IF s = << >> THEN << >> ELSE InsertSorted(Head(s), sorted(Tail(s)))

(***************************************************************************)
(* Reply keyboards                                                         *)
(***************************************************************************)
BUTTON_REGIONS == "Select Region"
BUTTON_MY_LOCATION == "My Location"
BUTTON_BACK_MAIN == "Back to Main Menu"
BUTTON_BACK_REGION == "Back to Regions"

MAIN_KEYBOARD == << <<BUTTON_REGIONS>>, <<BUTTON_MY_LOCATION>> >>

ReplyKeyboardRemove == [kind |-> "remove", rows |-> << >>]

\* rows closed at three buttons
RECURSIVE FillRows_ThreePerRow(_, _, _)
FillRows_ThreePerRow(items, keyboard_rows, current_row) ==
  IF items = << >>
  THEN IF current_row # << >> THEN Append(keyboard_rows, current_row)
       ELSE keyboard_rows
  ELSE LET row == Append(current_row, Head(items))
       IN  IF Len(row) = 3
           THEN FillRows_ThreePerRow(Tail(items), Append(keyboard_rows, row), << >>)
           ELSE FillRows_ThreePerRow(Tail(items), keyboard_rows, row)

\* the row-filling loop of both keyboard builders, and the flush after it
RECURSIVE FillRows(_, _, _)
FillRows(items, keyboard_rows, current_row) ==
  IF items = << >>
  THEN IF current_row # << >> THEN Append(keyboard_rows, current_row)
       ELSE keyboard_rows
  ELSE LET row == Append(current_row, Head(items))
       IN  IF Len(row) = 2
           THEN FillRows(Tail(items), Append(keyboard_rows, row), << >>)
           ELSE FillRows(Tail(items), keyboard_rows, row)

\* the keys taken in dictionary order, without sorted()
get_region_reply_keyboard_Unsorted ==
  Append(FillRows(RegionKeys, << >>, << >>), <<BUTTON_BACK_MAIN>>)

get_region_reply_keyboard ==
  Append(FillRows(sorted(RegionKeys), << >>, << >>), <<BUTTON_BACK_MAIN>>)

REGION_REPLY_KEYBOARD == get_region_reply_keyboard

\* the navigation row left out when there is no city row
get_city_reply_keyboard_NoBackWhenEmpty(region_name) ==
  IF CitiesOf(region_name) = << >> THEN << >>
  ELSE Append(FillRows(CitiesOf(region_name), << >>, << >>), <<BUTTON_BACK_REGION>>)

get_city_reply_keyboard(region_name) ==
  Append(FillRows(CitiesOf(region_name), << >>, << >>), <<BUTTON_BACK_REGION>>)

(***************************************************************************)
(* AQI classification                                                      *)
(***************************************************************************)
Good == "Good"
Moderate == "Moderate"
UnhealthySensitive == "Unhealthy for Sensitive Groups"
Unhealthy == "Unhealthy"
VeryUnhealthy == "Very Unhealthy"
Hazardous == "Hazardous"

Tiers == {Good, Moderate, UnhealthySensitive, Unhealthy, VeryUnhealthy, Hazardous}

get_aqi_description_OffByOne(aqi) ==
  IF 0 <= aqi /\ aqi < 50
  THEN [level |-> Good, message |-> "Air quality is satisfactory."]
  ELSE IF 51 <= aqi /\ aqi <= 100
  THEN [level |-> Moderate, message |-> "Sensitive individuals should limit outdoor activity."]
  ELSE IF 101 <= aqi /\ aqi <= 150
  THEN [level |-> UnhealthySensitive, message |-> "Sensitive groups may experience health effects."]
  ELSE IF 151 <= aqi /\ aqi <= 200
  THEN [level |-> Unhealthy, message |-> "Everyone may begin to experience health effects."]
  ELSE IF 201 <= aqi /\ aqi <= 300
  THEN [level |-> VeryUnhealthy, message |-> "Health warnings of emergency conditions."]
  ELSE [level |-> Hazardous, message |-> "Health alert: avoid all outdoor exertion."]

get_aqi_description(aqi) ==
  IF 0 <= aqi /\ aqi <= 50
  THEN [level |-> Good, message |-> "Air quality is satisfactory."]
  ELSE IF 51 <= aqi /\ aqi <= 100
  THEN [level |-> Moderate, message |-> "Sensitive individuals should limit outdoor activity."]
  ELSE IF 101 <= aqi /\ aqi <= 150
  THEN [level |-> UnhealthySensitive, message |-> "Sensitive groups may experience health effects."]
  ELSE IF 151 <= aqi /\ aqi <= 200
  THEN [level |-> Unhealthy, message |-> "Everyone may begin to experience health effects."]
  ELSE IF 201 <= aqi /\ aqi <= 300
  THEN [level |-> VeryUnhealthy, message |-> "Health warnings of emergency conditions."]
  ELSE [level |-> Hazardous, message |-> "Health alert: avoid all outdoor exertion."]

(***************************************************************************)
(* fetch_air_quality                                                       *)
(***************************************************************************)
Truthy(s) == s # None /\ s # ""

NoLabel == [kind |-> "none", city |-> None, state |-> None, lat |-> None, lon |-> None]

NoRequest == [endpoint |-> None, lat |-> None, lon |-> None,
              city |-> None, state |-> None, country |-> None]

NoResponse == [kind |-> "NoResponse", city |-> None, state |-> None, aqius |-> 0]

\* the message the function returns: a report, or one of its error texts
ErrorMessage(error, location_name) ==
  [id |-> "error", error |-> error, location_name |-> location_name,
   aqi |-> 0, level |-> None, advisory |-> None]

\* the endpoint, the request parameters and the first location_name
FetchPlan(latitude, longitude, city, state, country) ==
  IF ~Truthy(IQAIR_API_KEY)
  THEN [error |-> "missing_key", request |-> NoRequest, location_name |-> NoLabel]
  ELSE IF latitude # None /\ longitude # None
  THEN [error |-> None,
        request |-> [endpoint |-> "nearest_city", lat |-> latitude, lon |-> longitude,
                     city |-> None, state |-> None, country |-> None],
        location_name |-> [kind |-> "coords", city |-> None, state |-> None,
                           lat |-> latitude, lon |-> longitude]]
  ELSE IF Truthy(city) /\ Truthy(state)
  THEN [error |-> None,
        request |-> [endpoint |-> "city", lat |-> None, lon |-> None,
                     city |-> city, state |-> state, country |-> country],
        location_name |-> [kind |-> "place", city |-> city, state |-> state,
                           lat |-> None, lon |-> None]]
  ELSE [error |-> "invalid_parameters", request |-> NoRequest, location_name |-> NoLabel]

\* the requests the function sends: the single client.get, when it is reached
FetchRequests(latitude, longitude, city, state, country) ==
  LET plan == FetchPlan(latitude, longitude, city, state, country)
  IN  IF plan.error = None THEN <<plan.request>> ELSE << >>

\* the report headed with the region and the country instead of the city
fetch_air_quality_RegionLabel(latitude, longitude, city, state, country, resp) ==
  LET plan == FetchPlan(latitude, longitude, city, state, country)
  IN  IF plan.error # None THEN ErrorMessage(plan.error, NoLabel)
      ELSE IF resp.kind = "RequestError" THEN ErrorMessage("network", NoLabel)
      ELSE IF resp.kind = "HTTPStatusError" THEN ErrorMessage("internal", NoLabel)
      ELSE IF resp.kind = "ApiFail" THEN ErrorMessage("api", plan.location_name)
      ELSE IF resp.kind = "Malformed" THEN ErrorMessage("internal", NoLabel)
      ELSE LET location_name ==
                 IF latitude # None
                 THEN [kind |-> "place",
                       city |-> IF resp.city = None THEN "Unknown City" ELSE resp.city,
                       state |-> IF resp.state = None THEN "" ELSE resp.state,
                       lat |-> None, lon |-> None]
                 ELSE [kind |-> "place", city |-> state, state |-> country,
                       lat |-> None, lon |-> None]
               quality_info == get_aqi_description(resp.aqius)
           IN  [id |-> "report", error |-> None, location_name |-> location_name,
                aqi |-> resp.aqius, level |-> quality_info.level,
                advisory |-> quality_info.message]

\* the returned message, given what the one request came back with
fetch_air_quality(latitude, longitude, city, state, country, resp) ==
  LET plan == FetchPlan(latitude, longitude, city, state, country)
  IN  IF plan.error # None THEN ErrorMessage(plan.error, NoLabel)
      ELSE IF resp.kind = "RequestError" THEN ErrorMessage("network", NoLabel)
      ELSE IF resp.kind = "HTTPStatusError" THEN ErrorMessage("internal", NoLabel)
      ELSE IF resp.kind = "ApiFail" THEN ErrorMessage("api", plan.location_name)
      ELSE IF resp.kind = "Malformed" THEN ErrorMessage("internal", NoLabel)
      ELSE LET location_name ==
                 IF latitude # None
                 THEN [kind |-> "place",
                       city |-> IF resp.city = None THEN "Unknown City" ELSE resp.city,
                       state |-> IF resp.state = None THEN "" ELSE resp.state,
                       lat |-> None, lon |-> None]
                 ELSE plan.location_name
               quality_info == get_aqi_description(resp.aqius)
           IN  [id |-> "report", error |-> None, location_name |-> location_name,
                aqi |-> resp.aqius, level |-> quality_info.level,
                advisory |-> quality_info.message]

(***************************************************************************)
(* What the API can answer                                                 *)
(***************************************************************************)
AqiSamples == {50, 75, 301}

Failures == {"RequestError", "HTTPStatusError", "ApiFail", "Malformed"}

Responses(requests) ==
  IF requests = << >> THEN {NoResponse}
  ELSE LET req == requests[1]
       IN  {[kind |-> f, city |-> None, state |-> None, aqius |-> 0] : f \in Failures}
           \cup
           (IF req.endpoint = "city"
            THEN {[kind |-> "Success", city |-> req.city, state |-> req.state, aqius |-> a] :
                    a \in AqiSamples}
            ELSE {[kind |-> "Success", city |-> "Tashkent", state |-> "Toshkent Shahri",
                   aqius |-> a] : a \in AqiSamples}
                 \cup {[kind |-> "Success", city |-> None, state |-> None, aqius |-> a] :
                         a \in AqiSamples})

(***************************************************************************)
(* Updates, sessions                                                       *)
(***************************************************************************)
Users == {"u1", "u2"}

\* the ConversationHandler's keys (chat id, user id): u1 writes in a private
\* chat and in a group, u2 in the same group
AllKeys == {<<"c1", "u1">>, <<"g", "u1">>, <<"g", "u2">>}

\* the sessions that send updates under Spec: the two chats of u1, which
\* share context.user_data
Keys == {<<"c1", "u1">>, <<"g", "u1">>}

OtherTexts == {"bukhara", "hello"}

Texts == RegionNames \cup AllCities \cup OtherTexts
           \cup {BUTTON_REGIONS, BUTTON_BACK_MAIN, BUTTON_BACK_REGION}

Commands == {"/start", "/cancel", "/health", "/help"}

Coordinates == {<<"0.0", "0.0">>, <<"41.31", "69.28">>}

TextUpdates == {[kind |-> "text", text |-> t, lat |-> None, lon |-> None] : t \in Texts}

CommandUpdates ==
  {[kind |-> "command", text |-> c, lat |-> None, lon |-> None] : c \in Commands}

LocationUpdates ==
  {[kind |-> "location", text |-> None, lat |-> c[1], lon |-> c[2]] : c \in Coordinates}

Updates == TextUpdates \cup CommandUpdates \cup LocationUpdates

EmptyUserData == [selected_state_param |-> None, selected_region_name |-> None]

NoLog == [action |-> None, details |-> << >>]

Log(action, details) == [action |-> action, details |-> details]

\* reply_markup: a ReplyKeyboardMarkup with its rows, ReplyKeyboardRemove, or none
Keyboard(rows) == [kind |-> "keyboard", rows |-> rows]

NoMarkup == [kind |-> "none", rows |-> << >>]

NoMessage == [id |-> "none", error |-> None, location_name |-> NoLabel,
              aqi |-> 0, level |-> None, advisory |-> None]

\* a message sent to the chat: which text, the name put in it, the report
\* when the text is fetch_air_quality's message, and the reply_markup
Reply(id, arg, markup) ==
  [id |-> id, arg |-> arg, message |-> NoMessage, markup |-> markup]

ReportReply(report_message) ==
  [id |-> "report", arg |-> None, message |-> report_message, markup |-> NoMarkup]

NoUpdate == [kind |-> "none", text |-> None, lat |-> None, lon |-> None]

(***************************************************************************)
(* Dispatch: the handlers main() registers, in registration order          *)
(***************************************************************************)
IsCommand(update, name) == update.kind = "command" /\ update.text = name

\* filters.TEXT & ~filters.COMMAND
IsPlainText(update) == update.kind = "text"

\* the fallbacks without the /cancel handler
Fallback_NoCancel(update) ==
  IF IsCommand(update, "/start") THEN "start_command"
  ELSE IF IsPlainText(update) THEN "cancel_conversation"
  ELSE "none"

\* ConversationHandler.fallbacks, first match
Fallback(update) ==
  IF IsCommand(update, "/start") THEN "start_command"
  ELSE IF IsCommand(update, "/cancel") THEN "cancel_conversation"
  ELSE IF IsPlainText(update) THEN "cancel_conversation"
  ELSE "none"

\* region_conv_handler: entry points without a conversation, else the state's
\* handlers and then the fallbacks
ConversationDispatch(state, update) ==
  IF state = Idle
  THEN IF IsPlainText(update) /\ update.text = BUTTON_REGIONS
       THEN "start_region_selection" ELSE "none"
  ELSE IF state = CHOOSING_REGION /\ IsPlainText(update) THEN "select_city"
  ELSE IF state = CHOOSING_CITY /\ IsPlainText(update) THEN "get_aqi_by_city_name"
  ELSE Fallback(update)

\* application.add_handler order: the first handler that matches takes the
\* update; in_conv says whether the ConversationHandler ran it, and so whether
\* the value it returns moves the conversation
Dispatch(state, update) ==
  IF IsCommand(update, "/start") THEN [handler |-> "start_command", in_conv |-> FALSE]
  ELSE IF update.kind = "location" THEN [handler |-> "handle_location", in_conv |-> FALSE]
  ELSE IF IsCommand(update, "/health") THEN [handler |-> "health_check", in_conv |-> FALSE]
  ELSE [handler |-> ConversationDispatch(state, update), in_conv |-> TRUE]

\* ConversationHandler._update_state: END drops the key, None keeps the state
UpdateState(old, returned) ==
  IF returned = END THEN Idle
  ELSE IF returned = None THEN old
  ELSE returned

(***************************************************************************)
(* Handlers: value returned, user_data left, replies sent, log task made,  *)
(* and the fetch_air_quality call awaited (<< >> when there is none)       *)
(***************************************************************************)
Effect(ret, data, replies, log, fetches) ==
  [ret |-> ret, data |-> data, replies |-> replies, log |-> log, fetches |-> fetches]

FetchCall(latitude, longitude, city, state, country) ==
  [latitude |-> latitude, longitude |-> longitude, city |-> city, state |-> state,
   country |-> country]

start_region_selection(update, data) ==
  Effect(CHOOSING_REGION, data,
         <<Reply("choose_region", None, Keyboard(REGION_REPLY_KEYBOARD))>>,
         Log("Start Region Selection", << >>), << >>)

\* a new region stored by name only, over a location parameter already there
select_city_KeepsOldParam(update, data) ==
  LET region_name == update.text
  IN  IF region_name = BUTTON_BACK_MAIN
      THEN Effect(END, EmptyUserData,
                  <<Reply("main_restored", None, Keyboard(MAIN_KEYBOARD))>>,
                  Log("Back to Main Menu", << >>), << >>)
      ELSE IF region_name \notin RegionNames
      THEN Effect(CHOOSING_REGION, data,
                  <<Reply("invalid_region", None, Keyboard(REGION_REPLY_KEYBOARD))>>,
                  NoLog, << >>)
      ELSE Effect(CHOOSING_CITY,
                  [selected_state_param |->
                     IF Truthy(data.selected_state_param)
                     THEN data.selected_state_param
                     ELSE Region(region_name).state_param,
                   selected_region_name |-> region_name],
                  <<Reply(IF Region(region_name).cities = << >>
                          THEN "no_stations" ELSE "choose_city",
                          region_name, Keyboard(get_city_reply_keyboard(region_name)))>>,
                  Log("Select Region", <<region_name>>), << >>)

\* the back-to-main branch without user_data.clear()
select_city_BackKeepsData(update, data) ==
  LET region_name == update.text
  IN  IF region_name = BUTTON_BACK_MAIN
      THEN Effect(END, data,
                  <<Reply("main_restored", None, Keyboard(MAIN_KEYBOARD))>>,
                  Log("Back to Main Menu", << >>), << >>)
      ELSE IF region_name \notin RegionNames
      THEN Effect(CHOOSING_REGION, data,
                  <<Reply("invalid_region", None, Keyboard(REGION_REPLY_KEYBOARD))>>,
                  NoLog, << >>)
      ELSE Effect(CHOOSING_CITY,
                  [selected_state_param |-> Region(region_name).state_param,
                   selected_region_name |-> region_name],
                  <<Reply(IF Region(region_name).cities = << >>
                          THEN "no_stations" ELSE "choose_city",
                          region_name, Keyboard(get_city_reply_keyboard(region_name)))>>,
                  Log("Select Region", <<region_name>>), << >>)

\* the invalid-region branch clearing user_data
select_city_ClearsOnInvalid(update, data) ==
  LET region_name == update.text
  IN  IF region_name = BUTTON_BACK_MAIN
      THEN Effect(END, EmptyUserData,
                  <<Reply("main_restored", None, Keyboard(MAIN_KEYBOARD))>>,
                  Log("Back to Main Menu", << >>), << >>)
      ELSE IF region_name \notin RegionNames
      THEN Effect(CHOOSING_REGION, EmptyUserData,
                  <<Reply("invalid_region", None, Keyboard(REGION_REPLY_KEYBOARD))>>,
                  NoLog, << >>)
      ELSE Effect(CHOOSING_CITY,
                  [selected_state_param |-> Region(region_name).state_param,
                   selected_region_name |-> region_name],
                  <<Reply(IF Region(region_name).cities = << >>
                          THEN "no_stations" ELSE "choose_city",
                          region_name, Keyboard(get_city_reply_keyboard(region_name)))>>,
                  Log("Select Region", <<region_name>>), << >>)

select_city(update, data) ==
  LET region_name == update.text
  IN  IF region_name = BUTTON_BACK_MAIN
      THEN Effect(END, EmptyUserData,
                  <<Reply("main_restored", None, Keyboard(MAIN_KEYBOARD))>>,
                  Log("Back to Main Menu", << >>), << >>)
      ELSE IF region_name \notin RegionNames
      THEN Effect(CHOOSING_REGION, data,
                  <<Reply("invalid_region", None, Keyboard(REGION_REPLY_KEYBOARD))>>,
                  NoLog, << >>)
      ELSE Effect(CHOOSING_CITY,
                  [selected_state_param |-> Region(region_name).state_param,
                   selected_region_name |-> region_name],
                  <<Reply(IF Region(region_name).cities = << >>
                          THEN "no_stations" ELSE "choose_city",
                          region_name, Keyboard(get_city_reply_keyboard(region_name)))>>,
                  Log("Select Region", <<region_name>>), << >>)

\* the city looked up in the whole catalog, not in the stored region
get_aqi_by_city_name_AnyCity(update, data) ==
  LET city_name == update.text
      state_param == data.selected_state_param
      region_name == data.selected_region_name
  IN  IF city_name = BUTTON_BACK_REGION
      THEN Effect(CHOOSING_REGION, data,
                  <<Reply("returning", None, Keyboard(REGION_REPLY_KEYBOARD))>>,
                  Log("Back to Regions", << >>), << >>)
      ELSE IF ~Truthy(state_param) \/ city_name \notin AllCities
      THEN Effect(CHOOSING_CITY, data,
                  <<Reply("invalid_city", None,
                          Keyboard(get_city_reply_keyboard(region_name)))>>,
                  NoLog, << >>)
      ELSE Effect(None, data,
                  <<Reply("fetching", city_name, ReplyKeyboardRemove)>>,
                  Log("AQI by City", <<city_name, state_param>>),
                  <<FetchCall(None, None, city_name, state_param, COUNTRY_NAME)>>)

\* the text taken as a city without looking it up
get_aqi_by_city_name_Unvalidated(update, data) ==
  LET city_name == update.text
      state_param == data.selected_state_param
      region_name == data.selected_region_name
  IN  IF city_name = BUTTON_BACK_REGION
      THEN Effect(CHOOSING_REGION, data,
                  <<Reply("returning", None, Keyboard(REGION_REPLY_KEYBOARD))>>,
                  Log("Back to Regions", << >>), << >>)
      ELSE IF ~Truthy(state_param)
      THEN Effect(CHOOSING_CITY, data,
                  <<Reply("invalid_city", None,
                          Keyboard(get_city_reply_keyboard(region_name)))>>,
                  NoLog, << >>)
      ELSE Effect(None, data,
                  <<Reply("fetching", city_name, ReplyKeyboardRemove)>>,
                  Log("AQI by City", <<city_name, state_param>>),
                  <<FetchCall(None, None, city_name, state_param, COUNTRY_NAME)>>)

\* up to the await of fetch_air_quality
get_aqi_by_city_name(update, data) ==
  LET city_name == update.text
      state_param == data.selected_state_param
      region_name == data.selected_region_name
  IN  IF city_name = BUTTON_BACK_REGION
      THEN Effect(CHOOSING_REGION, data,
                  <<Reply("returning", None, Keyboard(REGION_REPLY_KEYBOARD))>>,
                  Log("Back to Regions", << >>), << >>)
      ELSE IF ~Truthy(state_param) \/ city_name \notin Range(CitiesOf(region_name))
      THEN Effect(CHOOSING_CITY, data,
                  <<Reply("invalid_city", None, Keyboard(get_city_reply_keyboard(region_name)))>>,
                  NoLog, << >>)
      ELSE Effect(None, data,
                  <<Reply("fetching", city_name, ReplyKeyboardRemove)>>,
                  Log("AQI by City", <<city_name, state_param>>),
                  <<FetchCall(None, None, city_name, state_param, COUNTRY_NAME)>>)

\* user_data.clear() left out
get_aqi_by_city_name_resume_KeepsData(data, report_message) ==
  Effect(END, data,
         <<ReportReply(report_message),
           Reply("select_another", None, Keyboard(MAIN_KEYBOARD))>>,
         NoLog, << >>)

\* an error message sent back with the city menu still open
get_aqi_by_city_name_resume_StuckOnError(data, report_message) ==
  IF report_message.id = "error"
  THEN Effect(CHOOSING_CITY, data, <<ReportReply(report_message)>>, NoLog, << >>)
  ELSE Effect(END, EmptyUserData,
              <<ReportReply(report_message),
                Reply("select_another", None, Keyboard(MAIN_KEYBOARD))>>,
              NoLog, << >>)

\* from the await on
get_aqi_by_city_name_resume(data, report_message) ==
  Effect(END, EmptyUserData,
         <<ReportReply(report_message),
           Reply("select_another", None, Keyboard(MAIN_KEYBOARD))>>,
         NoLog, << >>)

cancel_conversation(update, data) ==
  Effect(END, EmptyUserData,
         <<Reply("cancelled", None, Keyboard(MAIN_KEYBOARD))>>,
         Log("Conversation Cancelled", << >>), << >>)

start_command(update, data) ==
  Effect(END, EmptyUserData,
         <<Reply("welcome", None, Keyboard(MAIN_KEYBOARD))>>,
         Log("Start Command", << >>), << >>)

\* up to the await of fetch_air_quality
handle_location(update, data) ==
  Effect(None, data,
         <<Reply("location_received", None, ReplyKeyboardRemove)>>,
         Log("AQI by Location", <<update.lat, update.lon>>),
         <<FetchCall(update.lat, update.lon, None, None, COUNTRY_NAME)>>)

\* from the await on
handle_location_resume(data, report_message) ==
  Effect(END, data,
         <<ReportReply(report_message),
           Reply("select_another", None, Keyboard(MAIN_KEYBOARD))>>,
         NoLog, << >>)

health_check(update, data) ==
  Effect(None, data, <<Reply("bot_running", None, NoMarkup)>>, NoLog, << >>)

(***************************************************************************)
(* The bot as a state machine                                              *)
(***************************************************************************)
\* the update in hand: whose it is, what the session was before it, the
\* handler that took it, what the handler has done so far, and whether it
\* has returned (done) or is suspended in fetch_air_quality
NoDescription == [level |-> None, message |-> None]

\* probe: an index handed to get_aqi_description and what it returned; used
\* only by SpecClassify
NoProbe == [aqi |-> 0, description |-> NoDescription, classified |-> FALSE]

\* asyncio.create_task(log_and_ignore_errors(...)): the handler goes on
\* whatever becomes of the task, so its effect is the same for every outcome
LogOutcomes == {"saved", "failed", "never"}

\* the log awaited in the handler: a write that never ends stops it there
FireAndForget_Awaited(eff, data, outcome) ==
  IF eff.log # NoLog /\ outcome = "never"
  THEN Effect(None, data, << >>, eff.log, << >>)
  ELSE eff

\* what the handler does when its log task ends in `outcome`
FireAndForget(eff, data, outcome) == eff

\* what a session and its user can see of a handler's effect
View(eff) ==
  [ret |-> eff.ret, data |-> eff.data, replies |-> eff.replies, fetches |-> eff.fetches]

\* the views of the effect, one for each way the log task can end
ByLog(eff, data) == {View(FireAndForget(eff, data, o)) : o \in LogOutcomes}

NoFollows == [key |-> <<None, None>>, handler |-> None,
              back_main |-> FALSE, had_region |-> FALSE]

\* for an entry into region selection: the turn handled just before it
Follows(d) ==
  IF d.handler = "start_region_selection"
  THEN [key |-> turn.key, handler |-> turn.handler,
        back_main |-> turn.update.text = BUTTON_BACK_MAIN,
        had_region |-> turn.pre_data # EmptyUserData]
  ELSE NoFollows

InitTurn ==
  [key |-> CHOOSE k \in Keys : TRUE, update |-> NoUpdate,
   pre_state |-> Idle, pre_data |-> EmptyUserData,
   handler |-> "none", in_conv |-> FALSE,
   ret |-> None, replies |-> << >>, log |-> NoLog,
   fetches |-> << >>, requests |-> << >>, response |-> NoResponse,
   by_log |-> {View(Effect(None, EmptyUserData, << >>, NoLog, << >>))},
   follows |-> NoFollows, done |-> TRUE]

Turn(k, update, d, eff, requests, done) ==
  [key |-> k, update |-> update,
   pre_state |-> conversations[k], pre_data |-> user_data[k[2]],
   handler |-> d.handler, in_conv |-> d.in_conv,
   ret |-> eff.ret, replies |-> eff.replies, log |-> eff.log,
   fetches |-> eff.fetches, requests |-> requests, response |-> NoResponse,
   by_log |-> ByLog(eff, user_data[k[2]]), follows |-> Follows(d),
   done |-> done]

Init ==
  /\ conversations = [k \in AllKeys |-> Idle]
  /\ user_data = [u \in Users |-> EmptyUserData]
  /\ turn = InitTurn
  /\ probe = NoProbe

\* a handler that returns without awaiting the API
Complete(k, update, d, eff) ==
  /\ conversations' =
       [conversations EXCEPT ![k] = IF d.in_conv THEN UpdateState(@, eff.ret) ELSE @]
  /\ user_data' = [user_data EXCEPT ![k[2]] = eff.data]
  /\ turn' = Turn(k, update, d, eff, << >>, TRUE)
  /\ UNCHANGED probe

\* a handler that reaches its await of fetch_air_quality
Suspend(k, update, d, eff) ==
  LET c == eff.fetches[1]
  IN  /\ conversations' = conversations
      /\ user_data' = [user_data EXCEPT ![k[2]] = eff.data]
      /\ turn' = Turn(k, update, d, eff,
                      FetchRequests(c.latitude, c.longitude, c.city, c.state, c.country),
                      FALSE)
      /\ UNCHANGED probe

Handles(k, update, handler) ==
  /\ turn.done
  /\ Dispatch(conversations[k], update).handler = handler

StartCommand(k, update) ==
  /\ Handles(k, update, "start_command")
  /\ Complete(k, update, Dispatch(conversations[k], update),
              start_command(update, user_data[k[2]]))

HealthCheck(k, update) ==
  /\ Handles(k, update, "health_check")
  /\ Complete(k, update, Dispatch(conversations[k], update),
              health_check(update, user_data[k[2]]))

StartRegionSelection(k, update) ==
  /\ Handles(k, update, "start_region_selection")
  /\ Complete(k, update, Dispatch(conversations[k], update),
              start_region_selection(update, user_data[k[2]]))

SelectCity(k, update) ==
  /\ Handles(k, update, "select_city")
  /\ Complete(k, update, Dispatch(conversations[k], update),
              select_city(update, user_data[k[2]]))

GetAqiByCityName(k, update) ==
  /\ Handles(k, update, "get_aqi_by_city_name")
  /\ LET eff == get_aqi_by_city_name(update, user_data[k[2]])
     IN  IF eff.fetches = << >>
         THEN Complete(k, update, Dispatch(conversations[k], update), eff)
         ELSE Suspend(k, update, Dispatch(conversations[k], update), eff)

CancelConversation(k, update) ==
  /\ Handles(k, update, "cancel_conversation")
  /\ Complete(k, update, Dispatch(conversations[k], update),
              cancel_conversation(update, user_data[k[2]]))

HandleLocation(k, update) ==
  /\ Handles(k, update, "handle_location")
  /\ Suspend(k, update, Dispatch(conversations[k], update),
             handle_location(update, user_data[k[2]]))

\* an update no handler matches is dropped
Unhandled(k, update) ==
  /\ Handles(k, update, "none")
  /\ Complete(k, update, Dispatch(conversations[k], update),
              Effect(None, user_data[k[2]], << >>, NoLog, << >>))

\* the awaited fetch_air_quality returns and the suspended handler runs on
FetchReturn(resp) ==
  /\ ~turn.done
  /\ resp \in Responses(turn.requests)
  /\ LET k == turn.key
         c == turn.fetches[1]
         report_message ==
           fetch_air_quality(c.latitude, c.longitude, c.city, c.state, c.country, resp)
         eff == IF turn.handler = "get_aqi_by_city_name"
                THEN get_aqi_by_city_name_resume(user_data[k[2]], report_message)
                ELSE handle_location_resume(user_data[k[2]], report_message)
     IN  /\ conversations' =
              [conversations EXCEPT
                 ![k] = IF turn.in_conv THEN UpdateState(@, eff.ret) ELSE @]
         /\ user_data' = [user_data EXCEPT ![k[2]] = eff.data]
         /\ turn' = [turn EXCEPT !.ret = eff.ret,
                                 !.replies = @ \o eff.replies,
                                 !.response = resp,
                                 !.done = TRUE]
         /\ UNCHANGED probe

AllResponses ==
  UNION {Responses(<<r>>) :
           r \in {[endpoint |-> "nearest_city", lat |-> None, lon |-> None,
                   city |-> None, state |-> None, country |-> None]}
                 \cup {[endpoint |-> "city", lat |-> None, lon |-> None,
                        city |-> c, state |-> n, country |-> COUNTRY_NAME] :
                         c \in AllCities, n \in RegionNames}}
  \cup {NoResponse}

Next ==
  \/ \E k \in Keys, update \in Updates : StartCommand(k, update)
  \/ \E k \in Keys, update \in Updates : HealthCheck(k, update)
  \/ \E k \in Keys, update \in Updates : StartRegionSelection(k, update)
  \/ \E k \in Keys, update \in Updates : SelectCity(k, update)
  \/ \E k \in Keys, update \in Updates : GetAqiByCityName(k, update)
  \/ \E k \in Keys, update \in Updates : CancelConversation(k, update)
  \/ \E k \in Keys, update \in Updates : HandleLocation(k, update)
  \/ \E k \in Keys, update \in Updates : Unhandled(k, update)
  \/ \E resp \in AllResponses : FetchReturn(resp)

Spec == Init /\ [][Next]_vars

(***************************************************************************)
(* get_aqi_description on its own, over a range of indices                 *)
(***************************************************************************)
MaxAqi == 305
NegAqi == 5

AqiDomain == (0 - NegAqi)..MaxAqi

InitClassify ==
  /\ conversations = [k \in AllKeys |-> Idle]
  /\ user_data = [u \in Users |-> EmptyUserData]
  /\ turn = InitTurn
  /\ probe \in {[aqi |-> a, description |-> NoDescription, classified |-> FALSE] :
                  a \in AqiDomain}

Classify ==
  /\ ~probe.classified
  /\ probe' = [probe EXCEPT !.description = get_aqi_description(probe.aqi),
                            !.classified = TRUE]
  /\ UNCHANGED <<conversations, user_data, turn>>

NextClassify == Classify

SpecClassify == InitClassify /\ [][NextClassify]_vars

(***************************************************************************)
(* Properties                                                              *)
(***************************************************************************)
StateNow == conversations[turn.key]

DataNow == user_data[turn.key[2]]

TextTurn == turn.update.kind = "text"

LocationTurn == turn.update.kind = "location"

StoredCities == Range(CitiesOf(turn.pre_data.selected_region_name))

EmptyRegions == {n \in RegionNames : Region(n).cities = << >>}

MainMenuShown ==
  \E i \in 1..Len(turn.replies) : turn.replies[i].markup = Keyboard(MAIN_KEYBOARD)

ReportReplies == {i \in 1..Len(turn.replies) : turn.replies[i].id = "report"}

\* C1: a shared location, in whatever conversation state, is answered through
\* one fetch by coordinates and leaves the conversation in Idle.
C1_LocationEndsInIdle ==
  (turn.done /\ LocationTurn) =>
    /\ turn.fetches = <<FetchCall(turn.update.lat, turn.update.lon, None, None,
                                  COUNTRY_NAME)>>
    /\ ReportReplies # {}
    /\ StateNow = Idle

\* C2: in ChoosingCity a text that is neither the back-to-regions control nor
\* a city of the stored region leaves the state ChoosingCity and the stored
\* region as it was, and no fetch is made.
C2_UnknownCityKeepsState ==
  (/\ turn.pre_state = CHOOSING_CITY
   /\ TextTurn
   /\ turn.update.text # BUTTON_BACK_REGION
   /\ turn.update.text \notin StoredCities) =>
    /\ turn.done
    /\ StateNow = CHOOSING_CITY
    /\ DataNow = turn.pre_data
    /\ turn.fetches = << >>
    /\ turn.requests = << >>

\* a city of another region is refused while a region is stored
C2_Witness ==
  /\ turn.pre_state = CHOOSING_CITY
  /\ TextTurn
  /\ turn.pre_data.selected_region_name = "Toshkent"
  /\ turn.update.text = "Kagan"
  /\ turn.done

\* C3: in ChoosingCity a text that is a city of the stored region makes one
\* fetch by city, with that city and the stored region's location parameter;
\* when the handler has returned the session data is cleared and the state is
\* Idle.  Every by-city request names a city of the region whose location
\* parameter it sends.
C3_ValidCityFetches ==
  /\ (/\ turn.pre_state = CHOOSING_CITY
      /\ TextTurn
      /\ turn.update.text \in StoredCities) =>
       /\ turn.fetches =
            <<FetchCall(None, None, turn.update.text,
                        Region(turn.pre_data.selected_region_name).state_param,
                        COUNTRY_NAME)>>
       /\ Len(turn.requests) = 1
       /\ turn.done => (DataNow = EmptyUserData /\ StateNow = Idle)
  /\ \A i \in 1..Len(turn.requests) :
       turn.requests[i].endpoint = "city" =>
         \E n \in RegionNames :
           /\ Region(n).state_param = turn.requests[i].state
           /\ turn.requests[i].city \in Range(Region(n).cities)

C3_Witness ==
  /\ turn.pre_state = CHOOSING_CITY
  /\ TextTurn
  /\ turn.pre_data.selected_region_name = "Bukhara"
  /\ turn.update.text = "Kagan"
  /\ turn.done
  /\ turn.response.kind = "Success"

\* the documented bands
DocumentedTier(i, t) ==
  \/ t = Good /\ 0 <= i /\ i <= 50
  \/ t = Moderate /\ 51 <= i /\ i <= 100
  \/ t = UnhealthySensitive /\ 101 <= i /\ i <= 150
  \/ t = Unhealthy /\ 151 <= i /\ i <= 200
  \/ t = VeryUnhealthy /\ 201 <= i /\ i <= 300
  \/ t = Hazardous /\ i > 300

\* C4: get_aqi_description gives every integer one of the six tiers, and for
\* an index of 0 or more that tier is the one whose documented band holds the
\* index: the bands leave no gap and do not overlap.
C4_ClassifyMatchesBands ==
  probe.classified =>
    /\ probe.description.level \in Tiers
    /\ probe.aqi >= 0 =>
         \A t \in Tiers : DocumentedTier(probe.aqi, t) <=> t = probe.description.level

C4_Witness ==
  /\ probe.classified
  /\ probe.aqi = 301
  /\ probe.description.level = Hazardous

UnrecognizedText ==
  /\ TextTurn
  /\ \/ /\ turn.pre_state = CHOOSING_REGION
        /\ turn.update.text \notin RegionNames \cup {BUTTON_BACK_MAIN}
     \/ /\ turn.pre_state = CHOOSING_CITY
        /\ turn.update.text \notin StoredCities \cup {BUTTON_BACK_REGION}

Cancelled ==
  /\ turn.done
  /\ DataNow = EmptyUserData
  /\ MainMenuShown
  /\ StateNow = Idle

\* C5 as stated: in a non-idle state /cancel, and also a text the state does
\* not recognize, clears the session, shows the main menu and ends in Idle.
C5_CancelOrUnknownTextResets ==
  (/\ turn.pre_state # Idle
   /\ IsCommand(turn.update, "/cancel") \/ UnrecognizedText) => Cancelled

\* C5 as amended: in a non-idle state /cancel clears the session, shows the
\* main menu and ends in Idle; a text the state does not recognize is answered
\* by the state's own handler, which leaves the state as it was and does not
\* show the main menu.
C5_CancelResets ==
  /\ (turn.pre_state # Idle /\ IsCommand(turn.update, "/cancel")) => Cancelled
  /\ (turn.pre_state # Idle /\ UnrecognizedText) =>
       /\ turn.done
       /\ StateNow = turn.pre_state
       /\ ~MainMenuShown

C5_Witness ==
  /\ turn.pre_state = CHOOSING_CITY
  /\ turn.pre_data.selected_region_name = "Bukhara"
  /\ IsCommand(turn.update, "/cancel")
  /\ turn.done
  /\ StateNow = Idle

\* C6: after a turn that handled a shared location no region name and no
\* location parameter is stored.
C6_LocationClearsSession ==
  (turn.done /\ LocationTurn) => DataNow = EmptyUserData

\* C7: when the one request of a valid city selection fails (network error,
\* HTTP error status, API status other than success, malformed body), that
\* request is the only one made, the user gets an error text and no report,
\* the session data is cleared and the state is Idle.
C7_FetchFailureResets ==
  (/\ turn.done
   /\ turn.handler = "get_aqi_by_city_name"
   /\ turn.response.kind \in Failures) =>
    /\ Len(turn.fetches) = 1
    /\ Len(turn.requests) = 1
    /\ Cardinality(ReportReplies) = 1
    /\ \A i \in ReportReplies :
         /\ turn.replies[i].message.id = "error"
         /\ turn.replies[i].message.level = None
    /\ DataNow = EmptyUserData
    /\ StateNow = Idle

C7_Witness ==
  /\ turn.done
  /\ turn.handler = "get_aqi_by_city_name"
  /\ turn.response.kind = "RequestError"
  /\ turn.update.text = "Nukus"

ChoseEmptyRegion ==
  /\ turn.pre_state = CHOOSING_REGION
  /\ TextTurn
  /\ turn.update.text \in EmptyRegions

OnlyBackToRegions ==
  /\ Len(turn.replies) = 1
  /\ turn.replies[1].markup = Keyboard(<< <<BUTTON_BACK_REGION>> >>)

\* C8 as stated: choosing a region without cities shows a menu whose only
\* button is back-to-regions, and while such a region is stored no input in
\* ChoosingCity makes a fetch.
C8_EmptyRegionNeverFetches ==
  /\ ChoseEmptyRegion => OnlyBackToRegions
  /\ (/\ turn.pre_state = CHOOSING_CITY
      /\ turn.pre_data.selected_region_name \in EmptyRegions) => turn.fetches = << >>

\* C8 as amended: choosing a region without cities shows a menu whose only
\* button is back-to-regions, and while such a region is stored no text or
\* command in ChoosingCity makes a fetch; a shared location makes the fetch by
\* coordinates, never one by city.
C8_EmptyRegionNeverFetchesByCity ==
  /\ ChoseEmptyRegion => OnlyBackToRegions
  /\ (/\ turn.pre_state = CHOOSING_CITY
      /\ turn.pre_data.selected_region_name \in EmptyRegions) =>
       /\ ~LocationTurn => (turn.fetches = << >> /\ turn.requests = << >>)
       /\ \A i \in 1..Len(turn.fetches) : turn.fetches[i].city = None
       /\ \A i \in 1..Len(turn.requests) : turn.requests[i].endpoint = "nearest_city"

C8_Witness ==
  /\ turn.pre_state = CHOOSING_CITY
  /\ turn.pre_data.selected_region_name = "Surxondaryo"
  /\ TextTurn
  /\ turn.update.text = "Surxondaryo"
  /\ turn.done

\* C9: in ChoosingRegion a text that is neither the back-to-main control nor
\* exactly a region name is answered with the error notice and the region
\* menu, the state stays ChoosingRegion and the session data stays as it was.
C9_UnknownRegionKeepsState ==
  (/\ turn.pre_state = CHOOSING_REGION
   /\ TextTurn
   /\ turn.update.text \notin RegionNames \cup {BUTTON_BACK_MAIN}) =>
    /\ turn.done
    /\ turn.replies = <<Reply("invalid_region", None, Keyboard(REGION_REPLY_KEYBOARD))>>
    /\ StateNow = CHOOSING_REGION
    /\ DataNow = turn.pre_data

\* a region stored earlier survives a name in the wrong case
C9_Witness ==
  /\ turn.pre_state = CHOOSING_REGION
  /\ TextTurn
  /\ turn.update.text = "bukhara"
  /\ turn.pre_data.selected_region_name = "Bukhara"
  /\ turn.done

NavigationTurn ==
  \/ TextTurn /\ turn.update.text \in {BUTTON_BACK_MAIN, BUTTON_BACK_REGION}
  \/ IsCommand(turn.update, "/cancel")
  \/ IsCommand(turn.update, "/start")

\* C10: a turn that handles the back-to-main control, the back-to-regions
\* control, /cancel or /start makes no fetch, in any state.
C10_NavigationNeverFetches ==
  NavigationTurn => (turn.done /\ turn.fetches = << >> /\ turn.requests = << >>)

C10_Witness ==
  /\ turn.pre_state = CHOOSING_CITY
  /\ turn.pre_data.selected_region_name = "Xorazm"
  /\ TextTurn
  /\ turn.update.text = BUTTON_BACK_REGION
  /\ StateNow = CHOOSING_REGION

\* the session a first entry into region selection leaves
FreshEntry ==
  LET eff == start_region_selection(
               [kind |-> "text", text |-> BUTTON_REGIONS, lat |-> None, lon |-> None],
               EmptyUserData)
  IN  [state |-> UpdateState(Idle, eff.ret), data |-> eff.data]

EntryAfterBackToMain ==
  /\ turn.handler = "start_region_selection"
  /\ turn.follows.key = turn.key
  /\ turn.follows.handler = "select_city"
  /\ turn.follows.back_main

\* C11: entering region selection right after back-to-main was handled in
\* region selection leaves the state and the stored data that a first entry
\* leaves, also when a region was stored before the back-to-main.
C11_BackThenEntryIsFresh ==
  EntryAfterBackToMain =>
    /\ StateNow = FreshEntry.state
    /\ DataNow = FreshEntry.data

C11_Witness ==
  /\ EntryAfterBackToMain
  /\ turn.follows.had_region
  /\ StateNow = CHOOSING_REGION

\* C12: a step taken for one conversation leaves the state and the stored
\* region of every other conversation as they were.
C12_SessionsIndependent ==
  [][\A k \in AllKeys :
       k # turn'.key =>
         /\ conversations'[k] = conversations[k]
         /\ user_data'[k[2]] = user_data[k[2]]]_vars

\* some handler is ready to take an update of conversation k
CanHandle(k) ==
  \E update \in Updates :
    \/ ENABLED StartCommand(k, update)
    \/ ENABLED HealthCheck(k, update)
    \/ ENABLED StartRegionSelection(k, update)
    \/ ENABLED SelectCity(k, update)
    \/ ENABLED GetAqiByCityName(k, update)
    \/ ENABLED CancelConversation(k, update)
    \/ ENABLED HandleLocation(k, update)

\* C13: while the fetch of one conversation is pending, an update of another
\* conversation can be handled.
C13_OthersProgressDuringFetch ==
  ~turn.done => \E k \in Keys \ {turn.key} : CanHandle(k)

CityFetchSucceeded ==
  /\ turn.done
  /\ turn.handler = "get_aqi_by_city_name"
  /\ turn.response.kind = "Success"

\* C14: after a valid city selection and a successful fetch the report sent
\* is headed with the chosen city and the stored region's location parameter,
\* carries the fetched index, and its tier is the documented tier of that
\* index.
C14_ReportNamesCityAndTier ==
  CityFetchSucceeded =>
    /\ Cardinality(ReportReplies) = 1
    /\ \A i \in ReportReplies :
         LET m == turn.replies[i].message
         IN  /\ m.id = "report"
             /\ m.location_name =
                  [kind |-> "place", city |-> turn.update.text,
                   state |-> Region(turn.pre_data.selected_region_name).state_param,
                   lat |-> None, lon |-> None]
             /\ m.aqi = turn.response.aqius
             /\ \A t \in Tiers : DocumentedTier(m.aqi, t) <=> t = m.level

\* Bukhara, Kagan, index 75: Moderate
C14_Witness ==
  /\ CityFetchSucceeded
  /\ turn.pre_data.selected_region_name = "Bukhara"
  /\ turn.update.text = "Kagan"
  /\ turn.response.aqius = 75
  /\ \E i \in ReportReplies :
       /\ turn.replies[i].message.location_name.city = "Kagan"
       /\ turn.replies[i].message.level = Moderate

RegionMenuIds == {"choose_region", "invalid_region", "returning"}

CityMenuIds == {"choose_city", "no_stations", "invalid_city"}

\* rows of two, a last item row of one or two, then the row of the control
LayoutOK(rows, nav) ==
  /\ Len(rows) >= 1
  /\ rows[Len(rows)] = <<nav>>
  /\ \A i \in 1..(Len(rows) - 1) :
       /\ Len(rows[i]) \in {1, 2}
       /\ i < Len(rows) - 1 => Len(rows[i]) = 2
       /\ nav \notin Range(rows[i])

\* C16: every region menu and every city menu sent has item rows of two
\* buttons, but for the last item row, which may have one, and ends with a row
\* that holds the navigation control alone.
C16_MenuLayout ==
  \A i \in 1..Len(turn.replies) :
    LET r == turn.replies[i]
    IN  /\ r.id \in RegionMenuIds =>
             (r.markup.kind = "keyboard" /\ LayoutOK(r.markup.rows, BUTTON_BACK_MAIN))
        /\ r.id \in CityMenuIds =>
             (r.markup.kind = "keyboard" /\ LayoutOK(r.markup.rows, BUTTON_BACK_REGION))

\* the nine cities of Toshkent: four rows of two, one of one, the control
C16_Witness ==
  /\ Len(turn.replies) = 1
  /\ turn.replies[1].id = "choose_city"
  /\ turn.replies[1].arg = "Toshkent"
  /\ Len(turn.replies[1].markup.rows) = 6
  /\ turn.replies[1].markup.rows[5] = <<"Urtaowul">>

\* the buttons of the item rows, left to right, top to bottom
RECURSIVE Flatten(_)
Flatten(rows) == IF rows = << >> THEN << >> ELSE Head(rows) \o Flatten(Tail(rows))

MenuItems(rows) == Flatten(SubSeq(rows, 1, Len(rows) - 1))

\* C17: a region menu lists every region name once, ascending by code
\* points; a city menu lists the cities of the stored region in catalog order.
C17_MenuContents ==
  \A i \in 1..Len(turn.replies) :
    LET r == turn.replies[i]
        items == MenuItems(r.markup.rows)
    IN  /\ r.id \in RegionMenuIds =>
             /\ Len(items) = Cardinality(RegionNames)
             /\ Range(items) = RegionNames
             /\ \A j \in 1..(Len(items) - 1) : StrLess(items[j], items[j + 1])
        /\ r.id \in CityMenuIds =>
             items = CitiesOf(DataNow.selected_region_name)

\* Qashqadaryo, last in the dictionary, comes right after Navoiy
C17_Witness ==
  /\ Len(turn.replies) = 1
  /\ turn.replies[1].id = "choose_region"
  /\ turn.replies[1].markup.rows[4] = <<"Navoiy", "Qashqadaryo">>

\* C18: a conversation in ChoosingCity has a catalog region stored, with its
\* location parameter, and right after a region was accepted it is that one.
C18_ChoosingCityHasRegion ==
  /\ \A k \in Keys :
       conversations[k] = CHOOSING_CITY =>
         /\ user_data[k[2]].selected_region_name \in RegionNames
         /\ user_data[k[2]].selected_state_param =
              Region(user_data[k[2]].selected_region_name).state_param
  /\ (turn.handler = "select_city" /\ turn.ret = CHOOSING_CITY) =>
       DataNow.selected_region_name = turn.update.text

\* C19: /start, in whatever state, clears the session data, shows the main
\* menu and leaves the conversation in Idle.
C19_StartResets ==
  (turn.done /\ IsCommand(turn.update, "/start")) =>
    /\ DataNow = EmptyUserData
    /\ MainMenuShown
    /\ StateNow = Idle

StoredConsistently(data) ==
  \/ data = EmptyUserData
  \/ /\ data.selected_region_name \in RegionNames
     /\ data.selected_state_param = Region(data.selected_region_name).state_param

\* C20: back-to-regions in ChoosingCity shows the region menu, moves to
\* ChoosingRegion and fetches nothing; a region accepted afterwards replaces
\* the stored name and location parameter together; and in every state both
\* are absent or the parameter is the catalog's for the stored name.
C20_RegionStoredAsAPair ==
  /\ \A u \in Users : StoredConsistently(user_data[u])
  /\ (turn.pre_state = CHOOSING_CITY /\ TextTurn
        /\ turn.update.text = BUTTON_BACK_REGION) =>
       /\ turn.done
       /\ StateNow = CHOOSING_REGION
       /\ turn.replies = <<Reply("returning", None, Keyboard(REGION_REPLY_KEYBOARD))>>
       /\ turn.fetches = << >>
       /\ DataNow = turn.pre_data
  /\ (turn.pre_state = CHOOSING_REGION /\ TextTurn
        /\ turn.update.text \in RegionNames) =>
       DataNow = [selected_state_param |-> Region(turn.update.text).state_param,
                  selected_region_name |-> turn.update.text]

\* Toshkent chosen over a stored Bukhara
C20_Witness ==
  /\ turn.pre_state = CHOOSING_REGION
  /\ TextTurn
  /\ turn.pre_data.selected_region_name = "Bukhara"
  /\ turn.update.text = "Toshkent"
  /\ DataNow.selected_state_param = "Toshkent"

====
